---- MODULE Spec2Model ----
(***************************************************************************)
(* Model of the SAT evaluation engine of src/src/main.rs: Literal with its *)
(* equality and ordering, Clause::satisfied_by, SatInstance::inspect and   *)
(* SatInstance::satisfied_by.  All operations are pure functions of their  *)
(* arguments; every specification draws the arguments in its initial state *)
(* and applies one operation to them.                                      *)
(*                                                                         *)
(* A String is the sequence of its bytes, an Option is a sequence of at    *)
(* most one value (None == <<>>, Some(b) == <<b>>), an Ordering is one of  *)
(* "Less", "Equal", "Greater".                                             *)
(***************************************************************************)
EXTENDS Integers, Sequences, FiniteSets, TLC

VARIABLES pc, lhs, rhs, ord, clause, state, clause_result,
          instance, literals, literals_again, clause_results, inst_result

vars == <<pc, lhs, rhs, ord, clause, state, clause_result,
          instance, literals, literals_again, clause_results, inst_result>>

----------------------------------------------------------------------------
(* Bounds of the model *)

MaxNameLen == 2

MaxLits == 2

MaxStates == 2

MaxClauses == 2

(* The bytes 'a' and 'b' names are written with *)
Chars == {97, 98}

(* Sequences over S of length at most n *)
SeqUpTo(S, n) == UNION {[1..k -> S] : k \in 0..n}

----------------------------------------------------------------------------
(* Option *)

None == <<>>

Some(b) == <<b>>

OptionBool == {None, Some(TRUE), Some(FALSE)}

----------------------------------------------------------------------------
(* Literal *)

Literal(name, negated) == [negated |-> negated, name |-> name]

(* <[u8] as Ord>::cmp, which String::cmp delegates to: the first differing *)
(* byte decides, and a proper prefix is Less                               *)
RECURSIVE StrCmpFrom(_, _, _)
StrCmpFrom(s, t, i) ==
    IF i > Len(s) /\ i > Len(t) THEN "Equal"
    ELSE IF i > Len(s) THEN "Less"
    ELSE IF i > Len(t) THEN "Greater"
    ELSE IF s[i] < t[i] THEN "Less"
    ELSE IF s[i] > t[i] THEN "Greater"
    ELSE StrCmpFrom(s, t, i + 1)

StrCmp(s, t) == StrCmpFrom(s, t, 1)

(* <bool as Ord>::cmp: false < true *)
BoolCmp(x, y) ==
    IF x = y THEN "Equal" ELSE IF y THEN "Less" ELSE "Greater"

(* same_name_as that compares the polarity too *)
same_name_as_strict(self, other) ==
    self.name = other.name /\ self.negated = other.negated

(* Literal::same_name_as *)
same_name_as(self, other) == self.name = other.name

(* inverse_of that does not compare the names *)
inverse_of_any_name(self, other) == self.negated # other.negated

(* Literal::inverse_of *)
inverse_of(self, other) ==
    same_name_as(self, other) /\ self.negated # other.negated

(* impl PartialEq for Literal *)
LiteralEq(self, other) ==
    self.name = other.name /\ self.negated = other.negated

(* cmp with the polarities compared the wrong way round *)
cmp_swapped(self, other) ==
    LET o == StrCmp(self.name, other.name)
    IN  IF o = "Equal" THEN BoolCmp(other.negated, self.negated) ELSE o

(* impl Ord for Literal *)
cmp(self, other) ==
    LET o == StrCmp(self.name, other.name)
    IN  IF o = "Equal" THEN BoolCmp(self.negated, other.negated) ELSE o

(* impl PartialOrd for Literal *)
partial_cmp(self, other) == Some(cmp(self, other))

----------------------------------------------------------------------------
(* Specification SpecCmp: two literals are drawn and compared *)

CmpNames == SeqUpTo(Chars, MaxNameLen)

CmpLiterals == {Literal(n, g) : n \in CmpNames, g \in BOOLEAN}

NoLiteral == Literal(<<>>, FALSE)

NoClause == [operator |-> "AND", literals |-> <<>>]

NoState == [states |-> <<>>]

NoInstance == [clauses |-> <<>>]

CmpInit ==
    /\ pc = "init"
    /\ lhs \in CmpLiterals
    /\ rhs \in CmpLiterals
    /\ ord = None
    /\ clause = NoClause
    /\ state = NoState
    /\ clause_result = None
    /\ instance = NoInstance
    /\ literals = <<>>
    /\ literals_again = <<>>
    /\ clause_results = <<>>
    /\ inst_result = None

Compare ==
    /\ pc = "init"
    /\ ord' = partial_cmp(lhs, rhs)
    /\ pc' = "done"
    /\ UNCHANGED <<lhs, rhs, clause, state, clause_result,
                   instance, literals, literals_again, clause_results,
                   inst_result>>

CmpNext == Compare

SpecCmp == CmpInit /\ [][CmpNext]_vars

(* C6: Literal::cmp is a total order consistent with Literal equality:     *)
(* literals with different names compare as their names compare            *)
(* lexicographically, with equal names a non-negated literal is Less than  *)
(* a negated one, the result is Equal iff name and polarity both match,    *)
(* and the relation is antisymmetric and transitive.                       *)
LexLess(s, t) ==
    \E k \in 0..Len(s) :
        /\ k <= Len(t)
        /\ \A j \in 1..k : s[j] = t[j]
        /\ \/ k = Len(s) /\ k < Len(t)
           \/ k < Len(s) /\ k < Len(t) /\ s[k + 1] < t[k + 1]

Leq(a, b) == cmp(a, b) \in {"Less", "Equal"}

C6_TotalOrder ==
    pc = "done" =>
        /\ ord \in {Some("Less"), Some("Equal"), Some("Greater")}
        /\ lhs.name # rhs.name =>
              /\ ord = Some("Less") <=> LexLess(lhs.name, rhs.name)
              /\ ord = Some("Greater") <=> LexLess(rhs.name, lhs.name)
        /\ (lhs.name = rhs.name /\ ~lhs.negated /\ rhs.negated) =>
              ord = Some("Less")
        /\ (lhs.name = rhs.name /\ lhs.negated /\ ~rhs.negated) =>
              ord = Some("Greater")
        /\ ord = Some("Equal") <=> LiteralEq(lhs, rhs)
        /\ ord = Some("Less") <=> cmp(rhs, lhs) = "Greater"
        /\ ord = Some("Greater") <=> cmp(rhs, lhs) = "Less"
        /\ \A z \in CmpLiterals :
              (ord # Some("Greater") /\ Leq(rhs, z)) => Leq(lhs, z)

C6_Witness ==
    /\ pc = "done"
    /\ lhs.name = rhs.name
    /\ Len(lhs.name) = MaxNameLen
    /\ ~lhs.negated
    /\ rhs.negated
    /\ ord = Some("Less")

----------------------------------------------------------------------------
(* Clause, LiteralState, InstanceState *)

Operator == {"OR", "AND"}

(* The variable names of the clause and instance specifications: a, b *)
Names == {<<97>>, <<98>>}

Literals == {Literal(n, g) : n \in Names, g \in BOOLEAN}

Clause(operator, lits) == [operator |-> operator, literals |-> lits]

LiteralState(literal, value) == [literal |-> literal, value |-> value]

InstanceState(states) == [states |-> states]

Clauses == {Clause(o, ls) : o \in Operator, ls \in SeqUpTo(Literals, MaxLits)}

LiteralStates == {LiteralState(l, v) : l \in Literals, v \in OptionBool}

InstanceStates == {InstanceState(ss) : ss \in SeqUpTo(LiteralStates, MaxStates)}

(* find that returns the last entry of the name instead of the first *)
RECURSIVE FindFrom_last(_, _, _)
FindFrom_last(states, clause_literal, i) ==
    IF i > Len(states) THEN <<>>
    ELSE LET rest == FindFrom_last(states, clause_literal, i + 1)
         IN  IF rest # <<>> THEN rest
             ELSE IF same_name_as(clause_literal, states[i].literal)
                  THEN <<states[i]>>
             ELSE <<>>

(* state.states.clone().into_iter().find(..): the first LiteralState whose *)
(* literal has the name of clause_literal, as an Option<LiteralState>      *)
RECURSIVE FindFrom(_, _, _)
FindFrom(states, clause_literal, i) ==
    IF i > Len(states) THEN <<>>
    ELSE IF same_name_as(clause_literal, states[i].literal) THEN <<states[i]>>
    ELSE FindFrom(states, clause_literal, i + 1)

(* The closure without the flip of a negated clause literal *)
ResolveLiteral_noflip(clause_literal, st) ==
    LET found == FindFrom(st.states, clause_literal, 1)
    IN  IF found = <<>> THEN None ELSE found[1].value

(* The closure mapped over the clause's literals *)
ResolveLiteral(clause_literal, st) ==
    LET found == FindFrom(st.states, clause_literal, 1)
    IN  IF found = <<>> THEN None
        ELSE LET value == found[1].value
             IN  IF value = None THEN None
                 ELSE IF clause_literal.negated THEN Some(~value[1])
                 ELSE Some(value[1])

clause_literal_states(c, st) ==
    [i \in 1..Len(c.literals) |-> ResolveLiteral(c.literals[i], st)]

(* .all(|v| match v { Some(_) => true, _ => false }) *)
RECURSIVE AllSomeFrom(_, _)
AllSomeFrom(vs, i) ==
    IF i > Len(vs) THEN TRUE
    ELSE IF vs[i] = None THEN FALSE
    ELSE AllSomeFrom(vs, i + 1)

(* any that holds of the empty sequence *)
RECURSIVE AnySomeTrueFrom_vacuous(_, _)
AnySomeTrueFrom_vacuous(vs, i) ==
    IF i > Len(vs) THEN i = 1
    ELSE IF vs[i] = Some(TRUE) THEN TRUE
    ELSE AnySomeTrueFrom_vacuous(vs, i + 1)

(* .any(|v| match v { Some(true) => true, _ => false }) *)
RECURSIVE AnySomeTrueFrom(_, _)
AnySomeTrueFrom(vs, i) ==
    IF i > Len(vs) THEN FALSE
    ELSE IF vs[i] = Some(TRUE) THEN TRUE
    ELSE AnySomeTrueFrom(vs, i + 1)

(* .all(|v| match v { Some(true) => true, _ => false }) *)
RECURSIVE AllSomeTrueFrom(_, _)
AllSomeTrueFrom(vs, i) ==
    IF i > Len(vs) THEN TRUE
    ELSE IF vs[i] # Some(TRUE) THEN FALSE
    ELSE AllSomeTrueFrom(vs, i + 1)

(* satisfied_by without the return on a literal that is not set *)
ClauseSatisfiedBy_lenient(c, st) ==
    LET vs == clause_literal_states(c, st)
    IN  IF c.operator = "OR" THEN AnySomeTrueFrom(vs, 1)
        ELSE AllSomeTrueFrom(vs, 1)

(* Clause::satisfied_by *)
ClauseSatisfiedBy(c, st) ==
    LET vs == clause_literal_states(c, st)
        needed_literals_set == AllSomeFrom(vs, 1)
    IN  IF ~needed_literals_set THEN FALSE
        ELSE IF c.operator = "OR" THEN AnySomeTrueFrom(vs, 1)
        ELSE AllSomeTrueFrom(vs, 1)

----------------------------------------------------------------------------
(* Specification SpecClause: a clause and a state are drawn and the clause *)
(* is evaluated against the state                                          *)

ClauseInit ==
    /\ pc = "init"
    /\ lhs = NoLiteral
    /\ rhs = NoLiteral
    /\ ord = None
    /\ clause \in Clauses
    /\ state \in InstanceStates
    /\ clause_result = None
    /\ instance = NoInstance
    /\ literals = <<>>
    /\ literals_again = <<>>
    /\ clause_results = <<>>
    /\ inst_result = None

EvalClause ==
    /\ pc = "init"
    /\ clause_result' = Some(ClauseSatisfiedBy(clause, state))
    /\ pc' = "done"
    /\ UNCHANGED <<lhs, rhs, ord, clause, state,
                   instance, literals, literals_again, clause_results,
                   inst_result>>

ClauseNext == EvalClause

SpecClause == ClauseInit /\ [][ClauseNext]_vars

----------------------------------------------------------------------------
(* SatInstance *)

SatInstance(clauses) == [clauses |-> clauses]

(* .flat_map(|c| c.literals).collect() *)
RECURSIVE FlatMapFrom(_, _)
FlatMapFrom(clauses, i) ==
    IF i > Len(clauses) THEN <<>>
    ELSE clauses[i].literals \o FlatMapFrom(clauses, i + 1)

(* Vec::sort, a stable sort by Literal::cmp: every element is inserted     *)
(* behind the elements that are not Greater than it                        *)
RECURSIVE InsertSorted(_, _, _)
InsertSorted(sorted, x, i) ==
    IF i > Len(sorted) THEN Append(sorted, x)
    ELSE IF cmp(sorted[i], x) = "Greater"
         THEN SubSeq(sorted, 1, i - 1) \o <<x>> \o SubSeq(sorted, i, Len(sorted))
    ELSE InsertSorted(sorted, x, i + 1)

RECURSIVE SortFrom(_, _, _)
SortFrom(v, i, sorted) ==
    IF i > Len(v) THEN sorted
    ELSE SortFrom(v, i + 1, InsertSorted(sorted, v[i], 1))

Sort(v) == SortFrom(v, 1, <<>>)

(* dedup_by that compares with the element before, retained or not *)
RECURSIVE DedupByFrom_prev(_, _, _)
DedupByFrom_prev(v, i, retained) ==
    IF i > Len(v) THEN retained
    ELSE IF i > 1 /\ inverse_of(v[i], v[i - 1])
         THEN DedupByFrom_prev(v, i + 1, retained)
    ELSE DedupByFrom_prev(v, i + 1, Append(retained, v[i]))

(* Vec::dedup_by(|a, b| a.inverse_of(b)): a is the element looked at, b    *)
(* the last element retained; a is removed when the closure returns true   *)
RECURSIVE DedupByFrom(_, _, _)
DedupByFrom(v, i, retained) ==
    IF i > Len(v) THEN retained
    ELSE IF retained # <<>> /\ inverse_of(v[i], retained[Len(retained)])
         THEN DedupByFrom(v, i + 1, retained)
    ELSE DedupByFrom(v, i + 1, Append(retained, v[i]))

DedupBy(v) == DedupByFrom(v, 1, <<>>)

(* SatInstance::inspect *)
Inspect(inst) == DedupBy(Sort(FlatMapFrom(inst.clauses, 1)))

(* The calls c.satisfied_by(&state) that .all(..) makes, in order: it      *)
(* stops after the first clause that is not satisfied                      *)
RECURSIVE AllCalls(_, _, _)
AllCalls(clauses, st, i) ==
    IF i > Len(clauses) THEN <<>>
    ELSE LET r == ClauseSatisfiedBy(clauses[i], st)
         IN  IF r THEN <<r>> \o AllCalls(clauses, st, i + 1) ELSE <<r>>

(* satisfied_by that asks for one satisfied clause only *)
InstSatisfiedBy_any(inst, st) ==
    \E i \in 1..Len(inst.clauses) : ClauseSatisfiedBy(inst.clauses[i], st)

(* SatInstance::satisfied_by *)
InstSatisfiedBy(inst, st) ==
    LET calls == AllCalls(inst.clauses, st, 1)
    IN  calls = <<>> \/ calls[Len(calls)]

----------------------------------------------------------------------------
(* main: the instance (a OR b), (c AND NOT b) and a state built from the   *)
(* first three literals inspect returns for it; main gives them the values *)
(* true, false, true                                                       *)

MainInstance ==
    SatInstance(<<
        Clause("OR", <<Literal(<<97>>, FALSE), Literal(<<98>>, FALSE)>>),
        Clause("AND", <<Literal(<<99>>, FALSE), Literal(<<98>>, TRUE)>>) >>)

MainState(v0, v1, v2) ==
    LET ls == Inspect(MainInstance)
    IN  InstanceState(<< LiteralState(ls[1], v0),
                         LiteralState(ls[2], v1),
                         LiteralState(ls[3], v2) >>)

MainStates == {MainState(v0, v1, v2) : v0, v1, v2 \in OptionBool}

(* inst is main's instance or has at most MaxClauses clauses of Clauses *)
DrawInstance(inst) ==
    \/ inst = MainInstance
    \/ \E k \in 0..MaxClauses : \E cs \in [1..k -> Clauses] :
          inst = SatInstance(cs)

(* st is one of main's states or has at most MaxStates entries *)
DrawState(st) ==
    \/ st \in MainStates
    \/ \E k \in 0..MaxStates : \E ss \in [1..k -> LiteralStates] :
          st = InstanceState(ss)

----------------------------------------------------------------------------
(* Specification SpecInstance: an instance and a state are drawn and the   *)
(* instance is evaluated against the state                                 *)

InstanceInit ==
    /\ pc = "init"
    /\ lhs = NoLiteral
    /\ rhs = NoLiteral
    /\ ord = None
    /\ clause = NoClause
    /\ DrawState(state)
    /\ clause_result = None
    /\ DrawInstance(instance)
    /\ literals = <<>>
    /\ literals_again = <<>>
    /\ clause_results = <<>>
    /\ inst_result = None

EvalInstance ==
    /\ pc = "init"
    /\ clause_results' = AllCalls(instance.clauses, state, 1)
    /\ inst_result' = Some(InstSatisfiedBy(instance, state))
    /\ pc' = "done"
    /\ UNCHANGED <<lhs, rhs, ord, clause, state, clause_result,
                   instance, literals, literals_again>>

InstanceNext == EvalInstance

SpecInstance == InstanceInit /\ [][InstanceNext]_vars

----------------------------------------------------------------------------
(* Specification SpecInspect: an instance is drawn and inspected *)

InspectInit ==
    /\ pc = "init"
    /\ lhs = NoLiteral
    /\ rhs = NoLiteral
    /\ ord = None
    /\ clause = NoClause
    /\ state = NoState
    /\ clause_result = None
    /\ DrawInstance(instance)
    /\ literals = <<>>
    /\ literals_again = <<>>
    /\ clause_results = <<>>
    /\ inst_result = None

InspectInstance ==
    /\ pc = "init"
    /\ literals' = Inspect(instance)
    /\ pc' = "done"
    /\ UNCHANGED <<lhs, rhs, ord, clause, state, clause_result,
                   instance, literals_again, clause_results, inst_result>>

(* A second call of inspect on a clone of the same instance *)
InspectAgain ==
    /\ pc = "done"
    /\ literals_again' = Inspect(instance)
    /\ pc' = "again"
    /\ UNCHANGED <<lhs, rhs, ord, clause, state, clause_result,
                   instance, literals, clause_results, inst_result>>

InspectNext == InspectInstance \/ InspectAgain

SpecInspect == InspectInit /\ [][InspectNext]_vars

----------------------------------------------------------------------------
(* What a literal resolves to against a state, stated from the entries of  *)
(* the state: the deciding entry is the first one with the literal's name  *)

HasEntry(l, st) ==
    \E j \in 1..Len(st.states) : st.states[j].literal.name = l.name

IsFirstEntry(l, st, j) ==
    /\ st.states[j].literal.name = l.name
    /\ \A k \in 1..(j - 1) : st.states[k].literal.name # l.name

FirstEntry(l, st) ==
    st.states[CHOOSE j \in 1..Len(st.states) : IsFirstEntry(l, st, j)]

Unknown(l, st) == ~HasEntry(l, st) \/ FirstEntry(l, st).value = None

Truth(l, st) ==
    LET b == FirstEntry(l, st).value[1]
    IN  IF l.negated THEN ~b ELSE b

(* The reference evaluation of a clause whose literals are all known *)
RefClause(c, st) ==
    IF c.operator = "OR"
    THEN \E i \in 1..Len(c.literals) : Truth(c.literals[i], st)
    ELSE \A i \in 1..Len(c.literals) : Truth(c.literals[i], st)

(* C1: a clause with at least one literal whose variable is absent from    *)
(* the state, or whose first same-name entry has value None, is not        *)
(* satisfied, whatever its operator and the values of its other literals.  *)
C1_PartialStrict ==
    pc = "done" =>
        ((\E i \in 1..Len(clause.literals) : Unknown(clause.literals[i], state))
            => clause_result = Some(FALSE))

(* An OR clause with one literal unknown and another one true *)
C1_Witness ==
    /\ pc = "done"
    /\ clause.operator = "OR"
    /\ \E i, j \in 1..Len(clause.literals) :
          /\ Unknown(clause.literals[i], state)
          /\ ~Unknown(clause.literals[j], state)
          /\ Truth(clause.literals[j], state)
    /\ clause_result = Some(FALSE)

(* C2: when every literal of the clause resolves to a known value (the     *)
(* stored value, negated for a negated literal), an OR clause is satisfied *)
(* iff at least one literal is true and an AND clause iff all are.         *)
C2_ResolvedSemantics ==
    pc = "done" =>
        ((\A i \in 1..Len(clause.literals) : ~Unknown(clause.literals[i], state))
            => clause_result = Some(RefClause(clause, state)))

(* An OR clause of two known literals that holds only by a negated literal *)
(* whose variable is stored as false                                       *)
C2_Witness ==
    /\ pc = "done"
    /\ clause.operator = "OR"
    /\ Len(clause.literals) = 2
    /\ \A i \in 1..2 : ~Unknown(clause.literals[i], state)
    /\ clause.literals[1].negated
    /\ Truth(clause.literals[1], state)
    /\ ~Truth(clause.literals[2], state)
    /\ clause_result = Some(TRUE)

----------------------------------------------------------------------------
(* The clauses of the instance that satisfied_by evaluated *)
Evaluated == 1..Len(clause_results)

(* C3: an instance is satisfied iff every one of its clauses is satisfied  *)
(* by the same state, whatever the clauses' operators; an instance without *)
(* clauses is satisfied by every state; the instance of main is satisfied  *)
(* by a=true, b=false, c=true and not by a=false, b=true, c=true.          *)
C3_Conjunction ==
    pc = "done" =>
        /\ inst_result =
              Some(\A i \in 1..Len(instance.clauses) :
                      ClauseSatisfiedBy(instance.clauses[i], state))
        /\ instance.clauses = <<>> => inst_result = Some(TRUE)
        /\ (/\ instance = MainInstance
            /\ state = MainState(Some(TRUE), Some(FALSE), Some(TRUE)))
              => inst_result = Some(TRUE)
        /\ (/\ instance = MainInstance
            /\ state = MainState(Some(FALSE), Some(TRUE), Some(TRUE)))
              => inst_result = Some(FALSE)

C3_Witness ==
    /\ pc = "done"
    /\ instance = MainInstance
    /\ state = MainState(Some(TRUE), Some(FALSE), Some(TRUE))
    /\ clause_results = <<TRUE, TRUE>>
    /\ inst_result = Some(TRUE)

(* C7: an AND clause without literals is satisfied by every state, an OR   *)
(* clause without literals by none, and an instance that contains an OR    *)
(* clause without literals is satisfied by no state.                       *)
C7_Vacuous ==
    pc = "done" =>
        /\ \A i \in Evaluated :
              instance.clauses[i].literals = <<>> =>
                  clause_results[i] = (instance.clauses[i].operator = "AND")
        /\ (\E i \in 1..Len(instance.clauses) :
                instance.clauses[i] = Clause("OR", <<>>))
              => inst_result = Some(FALSE)

(* The empty state against an empty AND clause followed by an empty OR one *)
C7_Witness ==
    /\ pc = "done"
    /\ state.states = <<>>
    /\ instance.clauses = <<Clause("AND", <<>>), Clause("OR", <<>>)>>
    /\ clause_results = <<TRUE, FALSE>>
    /\ inst_result = Some(FALSE)

----------------------------------------------------------------------------
(* States that differ from st in one entry behind the first entry of the   *)
(* same name: that entry removed, its value changed, or such an entry      *)
(* added                                                                   *)

IsLater(ss, j) == \E k \in 1..(j - 1) : ss[k].literal.name = ss[j].literal.name

RemoveAt(ss, j) == SubSeq(ss, 1, j - 1) \o SubSeq(ss, j + 1, Len(ss))

InsertAt(ss, j, x) == SubSeq(ss, 1, j - 1) \o <<x>> \o SubSeq(ss, j, Len(ss))

LaterEdits(st) ==
    LET ss == st.states
        later == {j \in 1..Len(ss) : IsLater(ss, j)}
    IN  {InstanceState(RemoveAt(ss, j)) : j \in later}
        \cup {InstanceState([ss EXCEPT ![j].value = v]) :
                 j \in later, v \in OptionBool}
        \cup UNION {
               {InstanceState(InsertAt(ss, j,
                    LiteralState(Literal(ss[k].literal.name, g), v))) :
                  k \in 1..(j - 1), g \in BOOLEAN, v \in OptionBool}
               : j \in 2..(Len(ss) + 1)}

(* C8: of several entries with the same name only the first one in         *)
(* sequence order counts: the results of Clause::satisfied_by and of       *)
(* SatInstance::satisfied_by do not change when a later same-name entry is *)
(* added, removed or given another value, and a first entry with value     *)
(* None leaves the literal unknown even if a later entry has a value.      *)
C8_FirstMatch ==
    pc = "done" =>
        /\ \A st2 \in LaterEdits(state) :
              /\ AllCalls(instance.clauses, st2, 1) = clause_results
              /\ Some(InstSatisfiedBy(instance, st2)) = inst_result
        /\ \A i \in Evaluated :
              \A n \in 1..Len(instance.clauses[i].literals) :
                 LET l == instance.clauses[i].literals[n]
                 IN  (/\ HasEntry(l, state)
                      /\ FirstEntry(l, state).value = None
                      /\ \E j \in 1..Len(state.states) :
                            /\ state.states[j].literal.name = l.name
                            /\ state.states[j].value # None)
                        => ~clause_results[i]

(* Two entries of one name with the values true and false, in this order,  *)
(* and a clause that holds by the first of them                            *)
C8_Witness ==
    /\ pc = "done"
    /\ Len(state.states) = 2
    /\ IsLater(state.states, 2)
    /\ state.states[1].value = Some(TRUE)
    /\ state.states[2].value = Some(FALSE)
    /\ instance.clauses =
          <<Clause("OR", <<Literal(state.states[1].literal.name, FALSE)>>)>>
    /\ clause_results = <<TRUE>>
    /\ inst_result = Some(TRUE)

(* States with the names, values and order of st and any negated flags *)
PolarityVariants(st) ==
    LET ss == st.states
    IN  {InstanceState([j \in 1..Len(ss) |->
             LiteralState(Literal(ss[j].literal.name, f[j]), ss[j].value)]) :
           f \in [1..Len(ss) -> BOOLEAN]}

(* C9: the negated flag of the literals stored in the state is ignored:    *)
(* states that differ only in these flags give the same results of         *)
(* Clause::satisfied_by and of SatInstance::satisfied_by.                  *)
C9_StatePolarityIgnored ==
    pc = "done" =>
        \A st2 \in PolarityVariants(state) :
            /\ AllCalls(instance.clauses, st2, 1) = clause_results
            /\ Some(InstSatisfiedBy(instance, st2)) = inst_result

(* A value stored under a negated literal satisfies a clause whose literal *)
(* of that name is not negated                                             *)
C9_Witness ==
    /\ pc = "done"
    /\ Len(state.states) = 1
    /\ state.states[1].literal.negated
    /\ state.states[1].value = Some(TRUE)
    /\ instance.clauses =
          <<Clause("AND", <<Literal(state.states[1].literal.name, FALSE)>>)>>
    /\ clause_results = <<TRUE>>
    /\ inst_result = Some(TRUE)

----------------------------------------------------------------------------
(* The occurrences of literals in an instance, by clause and position *)

Positions(inst) ==
    UNION {{<<i, n>> : n \in 1..Len(inst.clauses[i].literals)} :
              i \in 1..Len(inst.clauses)}

LiteralAt(inst, p) == inst.clauses[p[1]].literals[p[2]]

NamesOf(inst) == {LiteralAt(inst, p).name : p \in Positions(inst)}

Occurrences(inst, l) ==
    Cardinality({p \in Positions(inst) : LiteralAt(inst, p) = l})

Copies(out, l) == Cardinality({k \in 1..Len(out) : out[k] = l})

(* l is not behind m in the order of the spec: by name, then non-negated   *)
(* before negated                                                          *)
NotBehind(l, m) ==
    \/ LexLess(l.name, m.name)
    \/ l.name = m.name /\ (l.negated => m.negated)

(* C4: inspect returns exactly one Literal per distinct variable name of   *)
(* the instance (no two elements share a name), in sorted order, also when *)
(* a literal occurs more than once in the instance.                        *)
C4_OnePerName ==
    pc = "done" =>
        /\ {literals[k].name : k \in 1..Len(literals)} = NamesOf(instance)
        /\ \A j, k \in 1..Len(literals) :
              j < k => /\ literals[j].name # literals[k].name
                       /\ NotBehind(literals[j], literals[k])

C10_DedupShape ==
    pc = "done" =>
        /\ \A k \in 1..Len(literals) : Occurrences(instance, literals[k]) > 0
        /\ \A name \in NamesOf(instance) :
              LET p == Occurrences(instance, Literal(name, FALSE))
                  n == Occurrences(instance, Literal(name, TRUE))
              IN  /\ Copies(literals, Literal(name, FALSE)) = p
                  /\ Copies(literals, Literal(name, TRUE)) =
                        IF p > 0 THEN 0 ELSE n
        /\ \A k \in 1..(Len(literals) - 1) :
              /\ NotBehind(literals[k], literals[k + 1])
              /\ ~(/\ literals[k].name = literals[k + 1].name
                   /\ literals[k].negated # literals[k + 1].negated)

(* A name with two non-negated occurrences and a negated one, which keeps  *)
(* the two, next to a name that occurs negated only                        *)
C10_Witness ==
    /\ pc = "done"
    /\ Len(literals) = 3
    /\ literals[1] = literals[2]
    /\ ~literals[1].negated
    /\ Occurrences(instance, Literal(literals[1].name, TRUE)) = 1
    /\ literals[3].negated

====
